---- MODULE Spec2Model ----
(***************************************************************************)
(* A model of django-planet's template tags (planet/templatetags/          *)
(* planet_tags.py) and of its add_feed management command                  *)
(* (planet/management/commands/add_feed.py).                               *)
(*                                                                         *)
(* The state is the database (posts, feeds), one template tag under        *)
(* compilation and rendering (its bits, the PlanetPostList node, the       *)
(* template context), the result of the inclusion tags authors_about and   *)
(* feeds_about, and one run of the add_feed command.                       *)
(***************************************************************************)
EXTENDS Integers, Sequences, FiniteSets, TLC

VARIABLES
    posts,      \* the planet_post table: post id -> row
    bits,       \* list(smart_split(token.contents)) of the tag being compiled
    node,       \* the PlanetPostList instance (its seven attributes)
    tag_pc,     \* "template" | "parsed" | "syntax_error" | "rendered" | "raised"
    context,    \* the template context's variables: name -> Python value
    listed,     \* context['posts'], the evaluated list of post ids
    now,        \* what datetime.today() returns
    about,      \* the context returned by authors_about / feeds_about
    args,       \* the positional arguments of add_feed
    options,    \* the options of add_feed
    cmd_pc,     \* "start" | "exited" | "done"
    calls,      \* the calls made to process_feed
    log         \* what was sent to PlanetLogger

vars == <<posts, bits, node, tag_pc, context, listed, now, about,
          args, options, cmd_pc, calls, log>>

tag_vars == <<bits, node, tag_pc, context, listed, now>>
cmd_vars == <<args, options, cmd_pc, calls, log>>

-----------------------------------------------------------------------------
(* Bounds of the model.                                                    *)

MaxArgs == 3        \* bits after the tag name, in the parsing specification
MaxPosts == 2       \* rows of planet_post in the enumerated databases
MaxDate == 4        \* dates are 0 .. MaxDate, in half days
MaxPage == 2        \* pages compared by the window arithmetic
BulkExtra == 1      \* the bulk database holds the default limit plus this

-----------------------------------------------------------------------------
(* Python values.  A string is the sequence of its tokens, so that         *)
(* str.split('=') is computed and not assumed.                             *)

PyNone == [k |-> "none", n |-> 0, s |-> <<>>]
PyInt(i) == [k |-> "int", n |-> i, s |-> <<>>]
PyStr(t) == [k |-> "str", n |-> 0, s |-> t]
PyBool(b) == [k |-> "bool", n |-> IF b THEN 1 ELSE 0, s |-> <<>>]

\* Python truth value testing: None, 0, False and '' are false.
Truthy(v) ==
    CASE v.k = "none" -> FALSE
      [] v.k = "int"  -> v.n # 0
      [] v.k = "bool" -> v.n # 0
      [] v.k = "str"  -> v.s # <<>>

-----------------------------------------------------------------------------
(* planet_post_list: the compilation function of the tag.                  *)

OptionNames == {"tag", "category", "template", "limit", "hidden", "days", "page"}

RECURSIVE split(_)
\* str.split('=') on a token sequence: the parts between the '=' tokens.
split(s) ==
    IF s = <<>> THEN << <<>> >>
    ELSE IF Head(s) = "=" THEN << <<>> >> \o split(Tail(s))
    ELSE LET r == split(Tail(s))
         IN  << <<Head(s)>> \o Head(r) >> \o Tail(r)

\* kwargs[str(name)] = value
SetItem(kwargs, key, value) ==
    [x \in DOMAIN kwargs \cup {key} |-> IF x = key THEN value ELSE kwargs[x]]

NoKwargs == [x \in {} |-> <<>>]

\* the tuple without its last name
AcceptedNamesDropPage == {<<n>> : n \in OptionNames \ {"page"}}

\* the tuple of line 246-247
AcceptedNames == {<<n>> : n \in OptionNames}

RECURSIVE ParseOptions(_, _, _)
\* the loop of lines 243-258, from index i on, with kwargs so far
ParseOptions(bs, i, kwargs) ==
    IF i > Len(bs) THEN [error |-> "none", kwargs |-> kwargs]
    ELSE LET parts == split(bs[i])
         IN  IF Len(parts) # 2
             THEN [error |-> "badly formatted option", kwargs |-> kwargs]
             ELSE IF parts[1] \in AcceptedNames
                  THEN ParseOptions(bs, i + 1,
                                    SetItem(kwargs, parts[1][1], parts[2]))
                  ELSE [error |-> "invalid option", kwargs |-> kwargs]

\* PlanetPostList.__init__: every attribute defaults to None
PlanetPostList(kwargs) ==
    [f \in OptionNames |->
        IF f \in DOMAIN kwargs THEN PyStr(kwargs[f]) ELSE PyNone]

NoNode == [f \in OptionNames |-> PyNone]

\* the function planet_post_list: the error raised ("none" when a node is
\* returned) and the keyword arguments collected
planet_post_list(bs) ==
    IF Len(bs) > 1
    THEN IF bs[2] # <<"with">>
         THEN [error |-> "must be with", kwargs |-> NoKwargs]
         ELSE ParseOptions(bs, 3, NoKwargs)
    ELSE [error |-> "none", kwargs |-> NoKwargs]

-----------------------------------------------------------------------------
(* The database.  Dates are in half days; a NULL date_modified and a feed  *)
(* without category are the empty sequence.                                *)

SITE_ID == 1
OtherSite == SITE_ID + 1

Tags == {<<"t1">>, <<"t2">>}
Authors == {"a1", "a2"}
NoCategory == <<>>
NullDate == <<>>

\* planet_feed: two feeds of the current site in different categories, one
\* of another site, one of the current site without category
FeedTable ==
    [f \in 1..4 |->
        CASE f = 1 -> [site |-> SITE_ID, category |-> <<"c1">>]
          [] f = 2 -> [site |-> SITE_ID, category |-> <<"c2">>]
          [] f = 3 -> [site |-> OtherSite, category |-> <<"c1">>]
          [] f = 4 -> [site |-> SITE_ID, category |-> NoCategory]]

FeedIds == DOMAIN FeedTable

PostIds == DOMAIN posts

\* COALESCE with its arguments exchanged
EffectiveDateCreatedFirst(p) == posts[p].date_created

\* COALESCE(planet_post.date_modified, planet_post.date_created)
EffectiveDate(p) ==
    IF posts[p].date_modified # NullDate
    THEN posts[p].date_modified[1]
    ELSE posts[p].date_created

\* Post.objects.filter(feed__site=settings.SITE_ID)
PostObjectsOfSite == {p \in PostIds : FeedTable[posts[p].feed].site = SITE_ID}

\* Post.site_objects: the posts of the current site that are not hidden
PostSiteObjects == {p \in PostObjectsOfSite : ~posts[p].hidden}

\* Feed.site_objects
FeedSiteObjects == {f \in FeedIds : FeedTable[f].site = SITE_ID}

\* Author.site_objects: the authors with a post in a feed of the current site
AuthorSiteObjects ==
    {a \in Authors : \E p \in PostObjectsOfSite : a \in posts[p].authors}

\* TaggedItem.objects.get_by_model(queryset, tag): the rows of the queryset
\* that carry the tag; no row when the value names no tag
get_by_model(queryset, tag) ==
    IF tag.k = "str" /\ tag.s \in Tags
    THEN {p \in queryset : tag.s \in posts[p].tags}
    ELSE {}

-----------------------------------------------------------------------------
(* django.template.Variable(val).resolve(context)                          *)

IntLiterals ==
    ("-1" :> -1) @@ ("0" :> 0) @@ ("1" :> 1) @@ ("2" :> 2) @@ ("3" :> 3)

StrLiterals ==
    ("'t1'" :> <<"t1">>) @@ ("'t2'" :> <<"t2">>) @@ ("'c1'" :> <<"c1">>) @@
    ("'c2'" :> <<"c2">>) @@ ("'False'" :> <<"False">>) @@ ("''" :> <<>>) @@
    ("'2'" :> <<"2">>) @@ ("'x'" :> <<"x">>)

\* A number or a quoted string is a literal; any other string is looked up
\* in the context and raises VariableDoesNotExist when it is not there.
\* A value that is not a string (an attribute resolved before) raises
\* TypeError.
VariableResolve(val, ctx) ==
    IF val.k # "str" THEN [error |-> "TypeError", value |-> val]
    ELSE IF Len(val.s) # 1
         THEN [error |-> "VariableDoesNotExist", value |-> val]
    ELSE IF val.s[1] \in DOMAIN IntLiterals
         THEN [error |-> "none", value |-> PyInt(IntLiterals[val.s[1]])]
    ELSE IF val.s[1] \in DOMAIN StrLiterals
         THEN [error |-> "none", value |-> PyStr(StrLiterals[val.s[1]])]
    ELSE IF val.s[1] \in DOMAIN ctx
         THEN [error |-> "none", value |-> ctx[val.s[1]]]
    ELSE [error |-> "VariableDoesNotExist", value |-> val]

ResolveOrder == <<"tag", "category", "template", "limit", "hidden", "days", "page">>

RECURSIVE resolve(_, _, _)
\* PlanetPostList.resolve, from the i-th name on: the attributes resolved
\* before an exception stay assigned
resolve(self, ctx, i) ==
    IF i > Len(ResolveOrder) THEN [error |-> "none", self |-> self]
    ELSE LET var == ResolveOrder[i]
         IN  IF self[var] = PyNone THEN resolve(self, ctx, i + 1)
             ELSE LET r == VariableResolve(self[var], ctx)
                  IN  IF r.error # "none"
                      THEN [error |-> r.error, self |-> self]
                      ELSE resolve([self EXCEPT ![var] = r.value], ctx, i + 1)

\* the builtin int()
int(v) ==
    CASE v.k = "int"  -> [error |-> "none", n |-> v.n]
      [] v.k = "bool" -> [error |-> "none", n |-> v.n]
      [] v.k = "none" -> [error |-> "TypeError", n |-> 0]
      [] v.k = "str"  ->
            IF Len(v.s) = 1 /\ v.s[1] \in DOMAIN IntLiterals
            THEN [error |-> "none", n |-> IntLiterals[v.s[1]]]
            ELSE [error |-> "ValueError", n |-> 0]

-----------------------------------------------------------------------------
(* PlanetPostList.process                                                  *)

DefaultLimit == 200

\* timedelta(days=d), in half days
timedelta(d) == 2 * d

\* lines 183-185: datetime.today(), moved back page*days when page > 0
start_date(today, days, page) ==
    IF page > 0 THEN today - timedelta(page * days) ELSE today

\* line 186
end_date(today, days, page) == start_date(today, days, page) - timedelta(days)

\* the where clause with >= and <=
InWindowInclusive(date, today, days, page) ==
    /\ date >= end_date(today, days, page)
    /\ date <= start_date(today, days, page)

\* the where clause of line 194
InWindow(date, today, days, page) ==
    /\ date > end_date(today, days, page)
    /\ date < start_date(today, days, page)

\* the hidden option ignored
BaseQuerySetAll(hidden) == PostObjectsOfSite

\* lines 155-158: the queryset the selection starts from
BaseQuerySet(hidden) ==
    IF hidden # PyNone /\ Truthy(hidden)
    THEN PostObjectsOfSite
    ELSE PostSiteObjects

\* lines 159-160
FilterTag(queryset, tag) ==
    IF tag # PyNone THEN get_by_model(queryset, tag) ELSE queryset

\* the category filter left out
FilterCategoryOff(queryset, category) == queryset

\* lines 166-167: posts.filter(feed__category__title=self.category)
FilterCategory(queryset, category) ==
    IF category # PyNone
    THEN {p \in queryset :
            /\ category.k = "str"
            /\ FeedTable[posts[p].feed].category # NoCategory
            /\ FeedTable[posts[p].feed].category = category.s}
    ELSE queryset

\* lines 179-196: the date restriction, when days is given
FilterWindow(queryset, today, days, page) ==
    {p \in queryset : InWindow(EffectiveDate(p), today, days, page)}

Perms(S) ==
    {f \in [1..Cardinality(S) -> S] :
        \A i, j \in 1..Cardinality(S) : i # j => f[i] # f[j]}

\* the posts of a queryset that share their effective date with another one:
\* ORDER BY leaves their relative order to the database
Tied(queryset) ==
    {p \in queryset :
        \E q \in queryset : q # p /\ EffectiveDate(q) = EffectiveDate(p)}

Position(tiebreak, p) ==
    IF \E i \in DOMAIN tiebreak : tiebreak[i] = p
    THEN CHOOSE i \in DOMAIN tiebreak : tiebreak[i] = p
    ELSE 0

\* p comes before q under order_by=['-date'], ties in the order the
\* database chose
Before(p, q, tiebreak) ==
    \/ EffectiveDate(p) > EffectiveDate(q)
    \/ /\ EffectiveDate(p) = EffectiveDate(q)
       /\ Position(tiebreak, p) < Position(tiebreak, q)

\* the member of a non-empty queryset with as many ids below it as above
Middle(queryset) ==
    CHOOSE p \in queryset :
        LET below == Cardinality({q \in queryset : q < p})
        IN  2 * below \in {Cardinality(queryset) - 1, Cardinality(queryset) - 2}

RECURSIVE OrderBy(_, _)
\* order_by=['-date'] of lines 193 and 203: the rows before a pivot, the
\* pivot, the rows after it
OrderBy(queryset, tiebreak) ==
    IF queryset = {} THEN <<>>
    ELSE LET pivot == Middle(queryset)
             before == {q \in queryset \ {pivot} : Before(q, pivot, tiebreak)}
             after == (queryset \ {pivot}) \ before
         IN  OrderBy(before, tiebreak) \o <<pivot>> \o OrderBy(after, tiebreak)

\* the slice one entry too long
SliceOneMore(rows, limit) ==
    IF limit < 0 THEN [error |-> "AssertionError", rows |-> <<>>]
    ELSE [error |-> "none",
          rows |-> SubSeq(rows, 1, IF limit + 1 < Len(rows) THEN limit + 1
                                   ELSE Len(rows))]

\* posts[:self.limit] of line 206; a negative bound is refused by the
\* queryset
Slice(rows, limit) ==
    IF limit < 0 THEN [error |-> "AssertionError", rows |-> <<>>]
    ELSE [error |-> "none",
          rows |-> SubSeq(rows, 1, IF limit < Len(rows) THEN limit ELSE Len(rows))]

Raise(error, self) == [error |-> error, self |-> self, posts |-> <<>>]

\* process(self, context): the exception raised ("none" when it returns),
\* the attributes of the node afterwards, and the list put in
\* context['posts']
process(self, ctx, today, tiebreak) ==
    LET r == resolve(self, ctx, 1) IN
    IF r.error # "none" THEN Raise(r.error, r.self) ELSE
    LET s1 == r.self
        base == BaseQuerySet(s1.hidden)
        tagged == FilterTag(base, s1.tag)
        incat == FilterCategory(tagged, s1.category)
        page == IF s1.page = PyNone THEN [error |-> "none", n |-> 0]
                ELSE int(s1.page)
    IN
    IF page.error # "none" THEN Raise(page.error, s1) ELSE
    LET s2 == [s1 EXCEPT !.page = PyInt(page.n)]
        s3 == IF s2.limit = PyNone \/ ~Truthy(s2.limit)
              THEN [s2 EXCEPT !.limit = PyInt(DefaultLimit)]
              ELSE s2
        days == IF s3.days # PyNone THEN int(s3.days)
                ELSE [error |-> "none", n |-> 0]
    IN
    IF days.error # "none" THEN Raise(days.error, s3) ELSE
    LET s4 == IF s3.days # PyNone THEN [s3 EXCEPT !.days = PyInt(days.n)]
              ELSE s3
        dated == IF s3.days # PyNone
                 THEN FilterWindow(incat, today, days.n, page.n)
                 ELSE incat
        ordered == OrderBy(dated, tiebreak)
        stop == int(s4.limit)
    IN
    IF stop.error # "none" THEN Raise(stop.error, s4) ELSE
    LET sliced == Slice(ordered, stop.n) IN
    IF sliced.error # "none" THEN Raise(sliced.error, s4) ELSE
    [error |-> "none",
     self |-> IF s4.template = PyNone
              THEN [s4 EXCEPT !.template = PyStr(<<"planet/list.html">>)]
              ELSE s4,
     posts |-> sliced.rows]

-----------------------------------------------------------------------------
(* The actions of the template tag.                                        *)

\* the template engine compiles the tag: planet_post_list(parser, token)
Compile ==
    /\ tag_pc = "template"
    /\ LET r == planet_post_list(bits)
       IN  IF r.error = "none"
           THEN /\ node' = PlanetPostList(r.kwargs)
                /\ tag_pc' = "parsed"
           ELSE /\ node' = node
                /\ tag_pc' = "syntax_error"
    /\ UNCHANGED <<posts, bits, context, listed, now, about>>
    /\ UNCHANGED cmd_vars

\* the template engine renders the node: PlanetPostList.render calls
\* process; the same node may be rendered again
Render ==
    /\ tag_pc \in {"parsed", "rendered", "raised"}
    /\ \E tiebreak \in Perms(Tied(PostIds)) :
         LET r == process(node, context, now, tiebreak)
         IN  /\ node' = r.self
             /\ IF r.error = "none"
                THEN /\ listed' = r.posts
                     /\ tag_pc' = "rendered"
                ELSE /\ listed' = listed
                     /\ tag_pc' = "raised"
    /\ UNCHANGED <<posts, bits, context, now, about>>
    /\ UNCHANGED cmd_vars

-----------------------------------------------------------------------------
(* The inclusion tags authors_about and feeds_about.                       *)

AuthorList == <<"a1", "a2">>

RECURSIVE Repeat(_, _)
Repeat(x, n) == IF n = 0 THEN <<>> ELSE <<x>> \o Repeat(x, n - 1)

RECURSIVE JoinRows(_, _, _)
\* the rows of a filter over the post relation: one row of an object for
\* each of its posts among post_ids, objects taken in the order of `all`
JoinRows(all, i, count) ==
    IF i > Len(all) THEN <<>>
    ELSE Repeat(all[i], count[all[i]]) \o JoinRows(all, i + 1, count)

\* the query without DISTINCT
NotDistinct(rows) == rows

RECURSIVE distinct(_)
\* QuerySet.distinct(): SELECT DISTINCT
distinct(rows) ==
    IF rows = <<>> THEN <<>>
    ELSE LET rest == distinct(SubSeq(rows, 1, Len(rows) - 1))
             last == rows[Len(rows)]
         IN  IF \E i \in DOMAIN rest : rest[i] = last
             THEN rest
             ELSE Append(rest, last)

\* lines 31-32 and 44-45
TaggedPostIds(tag) == get_by_model(PostSiteObjects, tag)

\* line 34: Author.site_objects.filter(post__in=post_ids).distinct()
authors_about(tag) ==
    LET post_ids == TaggedPostIds(tag)
        count == [a \in Authors |->
                    IF a \in AuthorSiteObjects
                    THEN Cardinality({p \in post_ids : a \in posts[p].authors})
                    ELSE 0]
    IN  distinct(JoinRows(AuthorList, 1, count))

FeedList == [i \in 1..Cardinality(FeedIds) |-> i]

\* line 47: Feed.site_objects.filter(post__in=post_ids).distinct()
feeds_about(tag) ==
    LET post_ids == TaggedPostIds(tag)
        count == [f \in FeedIds |->
                    IF f \in FeedSiteObjects
                    THEN Cardinality({p \in post_ids : posts[p].feed = f})
                    ELSE 0]
    IN  distinct(JoinRows(FeedList, 1, count))

\* the tag values a template passes to the inclusion tags: two tags in use
\* and a name that is no tag
AboutTags == {PyStr(<<"t1">>), PyStr(<<"t2">>), PyStr(<<"x">>)}

NoAbout == [of |-> "none", tag |-> PyNone, list |-> <<>>]

AuthorsAbout ==
    /\ tag_pc = "idle"
    /\ \E tag \in AboutTags :
         about' = [of |-> "authors", tag |-> tag, list |-> authors_about(tag)]
    /\ UNCHANGED <<posts, bits, node, tag_pc, context, listed, now>>
    /\ UNCHANGED cmd_vars

FeedsAbout ==
    /\ tag_pc = "idle"
    /\ \E tag \in AboutTags :
         about' = [of |-> "feeds", tag |-> tag, list |-> feeds_about(tag)]
    /\ UNCHANGED <<posts, bits, node, tag_pc, context, listed, now>>
    /\ UNCHANGED cmd_vars

-----------------------------------------------------------------------------
(* The add_feed command.                                                   *)

MaxCmdArgs == 3     \* positional arguments given to add_feed

Urls == {"u1", "u2", "u3"}
CategoryOptions == {PyNone, PyStr(<<"c1">>), PyStr(<<"c2">>)}

\* handle taking the last positional argument for the feed url
handleLastArg(a, opts) ==
    IF Len(a) = 0
    THEN [log |-> << <<"info", "Add feed">>,
                     <<"error", "You must provide the feed url as parameter">> >>,
          calls |-> <<>>,
          pc |-> "exited"]
    ELSE [log |-> << <<"info", "Add feed">> >>,
          calls |-> << [feed_url |-> a[Len(a)], create |-> TRUE,
                        category_title |-> opts.category] >>,
          pc |-> "done"]

\* Command.handle(*args, **options): what it logs, the calls it makes to
\* process_feed, and whether it ends by exit(0)
handle(a, opts) ==
    IF Len(a) = 0
    THEN [log |-> << <<"info", "Add feed">>,
                     <<"error", "You must provide the feed url as parameter">> >>,
          calls |-> <<>>,
          pc |-> "exited"]
    ELSE [log |-> << <<"info", "Add feed">> >>,
          calls |-> << [feed_url |-> a[1], create |-> TRUE,
                        category_title |-> opts.category] >>,
          pc |-> "done"]

\* one run of the command; what process_feed does with the call is defined
\* outside these files and is not part of the step
Handle ==
    /\ cmd_pc = "start"
    /\ LET r == handle(args, options)
       IN  /\ log' = log \o r.log
           /\ calls' = calls \o r.calls
           /\ cmd_pc' = r.pc
    /\ UNCHANGED <<args, options, about>>
    /\ UNCHANGED <<posts, bits, node, tag_pc, context, listed, now>>

-----------------------------------------------------------------------------
(* Initial states.                                                         *)

TagName == <<"planet_post_list">>
With == <<"with">>
Bit(name, word) == <<name, "=", word>>

RECURSIVE SeqsUpTo(_, _)
\* the sequences of at most n elements of S
SeqsUpTo(S, n) ==
    IF n = 0 THEN {<<>>}
    ELSE LET shorter == SeqsUpTo(S, n - 1)
         IN  shorter \cup {Append(q, x) : q \in shorter, x \in S}

DBs(rows) == UNION {[1..n -> rows] : n \in 0..MaxPosts}

EmptyDB == [i \in {} |-> 0]

\* the variables a template's context holds
TemplateContext ==
    ("tag" :> PyStr(<<"t1">>)) @@ ("n" :> PyInt(1)) @@
    ("nothing" :> PyNone) @@ ("flag" :> PyBool(TRUE))

Today == MaxDate - 1

IdleTag ==
    /\ bits = <<TagName>>
    /\ node = NoNode
    /\ tag_pc = "idle"
    /\ context = TemplateContext
    /\ listed = <<>>
    /\ now = Today

IdleCommand ==
    /\ args = <<>>
    /\ options = [category |-> PyNone]
    /\ cmd_pc = "idle"
    /\ calls = <<>>
    /\ log = <<>>

NewTag(B) ==
    /\ bits \in B
    /\ node = NoNode
    /\ tag_pc = "template"
    /\ context = TemplateContext
    /\ listed = <<>>
    /\ now = Today
    /\ about = NoAbout
    /\ IdleCommand

\* bits as a template author may write or mistype them: every option once,
\* one of them with a second value, a word that is no option, and the ways
\* an argument can fail to be name=value
ArgBits ==
    {With}
    \cup {Bit(name, "1") : name \in OptionNames \cup {"bogus"}}
    \cup {Bit("limit", "2"), Bit("with", "1")}
    \cup {<<"limit">>, <<"limit", "=">>, <<"=", "1">>, <<"=">>,
          <<"limit", "=", "1", "=", "2">>}

InitParse ==
    /\ posts = EmptyDB
    /\ NewTag({<<TagName>> \o a : a \in SeqsUpTo(ArgBits, MaxArgs)})

\* an option left out, or given with one of the words
OptionBits(name, words) == {<<>>} \cup {<<Bit(name, w)>> : w \in words}

WellFormedBits(tags, categories, hiddens, limits, dayss, pages) ==
    {<<TagName>>}
    \cup {<<TagName, With>> \o t \o c \o h \o l \o d \o p :
            t \in OptionBits("tag", tags),
            c \in OptionBits("category", categories),
            h \in OptionBits("hidden", hiddens),
            l \in OptionBits("limit", limits),
            d \in OptionBits("days", dayss),
            p \in OptionBits("page", pages)}

SelectRows ==
    [feed : FeedIds, hidden : BOOLEAN, tags : SUBSET Tags, authors : {{}},
     date_created : {0}, date_modified : {NullDate}]

InitSelect ==
    /\ posts \in DBs(SelectRows)
    /\ NewTag(WellFormedBits({"'t1'", "'t2'", "tag", "missing"},
                             {"'c1'", "'x'"},
                             {"0", "1", "'False'", "nothing"},
                             {}, {}, {}))

WindowRows ==
    [feed : {1}, hidden : {FALSE}, tags : {{}}, authors : {{}},
     date_created : 0..MaxDate,
     date_modified : {NullDate} \cup {<<d>> : d \in 0..MaxDate}]

\* more posts than the default limit, the newest first
BulkDB ==
    [i \in 1..(DefaultLimit + BulkExtra) |->
        [feed |-> 1, hidden |-> FALSE, tags |-> {}, authors |-> {},
         date_created |-> DefaultLimit + BulkExtra - i,
         date_modified |-> NullDate]]

InitWindow ==
    /\ posts \in DBs(WindowRows) \cup {BulkDB}
    /\ NewTag(WellFormedBits({}, {}, {},
                             {"-1", "0", "1", "2"},
                             {"-1", "0", "1", "'2'"},
                             {"-1", "0", "1", "'x'"}))

AboutRows ==
    [feed : FeedIds, hidden : BOOLEAN, tags : SUBSET Tags,
     authors : SUBSET Authors, date_created : {0}, date_modified : {NullDate}]

InitAbout ==
    /\ posts \in DBs(AboutRows)
    /\ IdleTag
    /\ about = NoAbout
    /\ IdleCommand

InitCommand ==
    /\ posts = EmptyDB
    /\ IdleTag
    /\ about = NoAbout
    /\ args \in SeqsUpTo(Urls, MaxCmdArgs)
    /\ options \in [category : CategoryOptions]
    /\ cmd_pc = "start"
    /\ calls = <<>>
    /\ log = <<>>

Init == InitParse \/ InitSelect \/ InitWindow \/ InitAbout \/ InitCommand

NextTag == Compile \/ Render
NextAbout == AuthorsAbout \/ FeedsAbout
Next == Compile \/ Render \/ AuthorsAbout \/ FeedsAbout \/ Handle

Spec == Init /\ [][Next]_vars
SpecParse == InitParse /\ [][NextTag]_vars
SpecSelect == InitSelect /\ [][NextTag]_vars
SpecWindow == InitWindow /\ [][NextTag]_vars
SpecAbout == InitAbout /\ [][NextAbout]_vars
SpecCommand == InitCommand /\ [][Handle]_vars

-----------------------------------------------------------------------------
(* What the claims speak of, stated on the bits, the tables and the list,  *)
(* not through the operators that model the code.                          *)

Range(q) == {q[i] : i \in DOMAIN q}

Listed == Range(listed)

\* the tag has been compiled and not rendered yet
Compiled == tag_pc \in {"parsed", "syntax_error"}

\* process has returned for the first rendering of the node
Rendered == tag_pc = "rendered"

EqualSigns(bit) == {j \in DOMAIN bit : bit[j] = "="}
BitName(bit) == SubSeq(bit, 1, (CHOOSE j \in EqualSigns(bit) : TRUE) - 1)
BitValue(bit) == SubSeq(bit, (CHOOSE j \in EqualSigns(bit) : TRUE) + 1, Len(bit))

BadOption(bit) ==
    \/ Cardinality(EqualSigns(bit)) # 1
    \/ BitName(bit) \notin {<<"tag">>, <<"category">>, <<"template">>,
                            <<"limit">>, <<"hidden">>, <<"days">>, <<"page">>}

OptionIndexes == 3..Len(bits)

MustRaise ==
    /\ Len(bits) > 1
    /\ \/ bits[2] # <<"with">>
       \/ \E i \in OptionIndexes : BadOption(bits[i])

\* the places where the option is given
Given(name) == {i \in OptionIndexes : BitName(bits[i]) = <<name>>}

LastGiven(name) == CHOOSE i \in Given(name) : \A j \in Given(name) : j <= i

\* what the option's text stands for in the template: a number, a quoted
\* string or a variable of the context; None when the option is left out
Meaning(name) ==
    IF Given(name) = {} THEN PyNone
    ELSE LET w == BitValue(bits[LastGiven(name)])[1]
         IN  IF w \in DOMAIN IntLiterals THEN PyInt(IntLiterals[w])
             ELSE IF w \in DOMAIN StrLiterals THEN PyStr(StrLiterals[w])
             ELSE context[w]

IsGiven(name) == Meaning(name) # PyNone

\* a post's effective date: date_modified when set, date_created otherwise
DateOf(p) ==
    IF posts[p].date_modified = NullDate
    THEN posts[p].date_created
    ELSE posts[p].date_modified[1]

OfCurrentSite(p) == FeedTable[posts[p].feed].site = SITE_ID

HasTag(p, t) == t.k = "str" /\ t.s \in posts[p].tags

InCategory(p, c) ==
    /\ c.k = "str"
    /\ FeedTable[posts[p].feed].category # NoCategory
    /\ FeedTable[posts[p].feed].category = c.s

ShowsHidden == IsGiven("hidden") /\ Truthy(Meaning("hidden"))

\* the posts the hidden option leaves to select from
Candidates ==
    IF ShowsHidden THEN {p \in PostIds : OfCurrentSite(p)} ELSE PostSiteObjects

NumberOf(v) == IF v.k = "str" THEN IntLiterals[v.s[1]] ELSE v.n

\* the page, taken as 0 when absent or not positive
PageNumber ==
    IF IsGiven("page") /\ NumberOf(Meaning("page")) > 0
    THEN NumberOf(Meaning("page"))
    ELSE 0

WindowStart == now - timedelta(PageNumber * NumberOf(Meaning("days")))
WindowEnd == now - timedelta((PageNumber + 1) * NumberOf(Meaning("days")))

InDateWindow(p) == WindowEnd < DateOf(p) /\ DateOf(p) < WindowStart

\* the posts the date window leaves of the candidates
Wanted ==
    IF IsGiven("days") THEN {p \in Candidates : InDateWindow(p)} ELSE Candidates

\* the number of entries asked for
EntriesAsked ==
    IF IsGiven("limit") /\ Truthy(Meaning("limit"))
    THEN NumberOf(Meaning("limit"))
    ELSE 200

Min(a, b) == IF a < b THEN a ELSE b

-----------------------------------------------------------------------------
(* C1, as stated: planet_post_list raises exactly when the first argument  *)
(* is not 'with', or an option does not split on '=' into one name and one *)
(* value, or its name is not an option; otherwise the node's options are   *)
(* exactly the given name=value pairs, every other option None.            *)
(* Violated: an option given twice keeps only its last value.              *)
C1_AsStated ==
    Compiled =>
        /\ (tag_pc = "syntax_error") <=> MustRaise
        /\ tag_pc = "parsed" =>
              /\ \A i \in OptionIndexes :
                    node[BitName(bits[i])[1]] = PyStr(BitValue(bits[i]))
              /\ \A name \in OptionNames :
                    Given(name) = {} => node[name] = PyNone

(* C1, amended: the same, and an option given more than once has the      *)
(* value given last.                                                       *)
C1_LastValueWins ==
    Compiled =>
        /\ (tag_pc = "syntax_error") <=> MustRaise
        /\ tag_pc = "parsed" =>
              \A name \in OptionNames :
                 node[name] = IF Given(name) = {} THEN PyNone
                              ELSE PyStr(BitValue(bits[LastGiven(name)]))

C1_Witness ==
    /\ tag_pc = "parsed"
    /\ \E i, j \in Given("limit") : i < j /\ BitValue(bits[i]) # BitValue(bits[j])
    /\ node.limit = PyStr(<<"2">>)
    /\ node.page = PyNone

(* C2: the list process puts in context['posts'] has at most n entries     *)
(* when the limit option resolves to n, and at most 200 when the limit is  *)
(* not given or resolves to a false value.                                 *)
C2_LimitBoundsList ==
    Rendered =>
        IF IsGiven("limit") /\ Truthy(Meaning("limit"))
        THEN Len(listed) <= NumberOf(Meaning("limit"))
        ELSE Len(listed) <= 200

C2_Witness ==
    /\ Rendered
    /\ ~IsGiven("limit")
    /\ ~IsGiven("days")
    /\ Cardinality(PostSiteObjects) > 200
    /\ Len(listed) = 200

(* C3: a post that is not one of Post.site_objects is listed only when the *)
(* hidden option is given and resolves to a true value; otherwise every    *)
(* listed post is one of Post.site_objects; in both cases every listed     *)
(* post belongs to a feed of the current site.                             *)
C3_HiddenOnlyOnRequest ==
    Rendered =>
        /\ (\E p \in Listed : p \notin PostSiteObjects) => ShowsHidden
        /\ ~ShowsHidden => Listed \subseteq PostSiteObjects
        /\ \A p \in Listed : OfCurrentSite(p)

C3_Witness ==
    /\ Rendered
    /\ ShowsHidden
    /\ \E p \in Listed : posts[p].hidden
    /\ \E p \in PostIds : ~OfCurrentSite(p)

(* C4: when tag is given every listed post carries the tag, when category  *)
(* is given every listed post is of a feed of that category, both when     *)
(* both are given; an option not given removes no post.                    *)
C4_TagAndCategoryFilter ==
    Rendered =>
        /\ IsGiven("tag") => \A p \in Listed : HasTag(p, Meaning("tag"))
        /\ IsGiven("category") =>
              \A p \in Listed : InCategory(p, Meaning("category"))
        /\ ~IsGiven("tag") =>
              \A p \in Candidates :
                 (IsGiven("category") => InCategory(p, Meaning("category")))
                    => p \in Listed
        /\ ~IsGiven("category") =>
              \A p \in Candidates :
                 (IsGiven("tag") => HasTag(p, Meaning("tag"))) => p \in Listed

C4_Witness ==
    /\ Rendered
    /\ IsGiven("tag")
    /\ IsGiven("category")
    /\ Listed # {}
    /\ \E p \in Candidates \ Listed :
          HasTag(p, Meaning("tag")) /\ ~InCategory(p, Meaning("category"))

(* C5: with days = d and page = p (0 when absent or not positive) only     *)
(* posts dated strictly between now - (p+1)*d days and now - p*d days are  *)
(* listed; for d > 0 the windows of two different pages share no date and  *)
(* the end of page p is the start of page p+1; without days no date        *)
(* restriction applies, whatever the page.                                 *)
C5_DateWindow ==
    /\ Rendered /\ IsGiven("days") => \A p \in Listed : InDateWindow(p)
    /\ Rendered /\ ~IsGiven("days") =>
          Len(listed) = Min(EntriesAsked, Cardinality(Candidates))
    /\ Rendered /\ IsGiven("days") /\ NumberOf(Meaning("days")) > 0 =>
          LET d == NumberOf(Meaning("days")) IN
          /\ end_date(now, d, PageNumber) = start_date(now, d, PageNumber + 1)
          /\ \A q \in 0..MaxPage, p \in Listed :
                q # PageNumber => ~InWindow(DateOf(p), now, d, q)

C5_Witness ==
    /\ Rendered
    /\ IsGiven("days")
    /\ PageNumber > 0
    /\ Listed # {}
    /\ \E p \in PostIds : DateOf(p) = WindowStart
    /\ \E p \in PostIds : DateOf(p) > WindowStart

(* C6: run without positional argument add_feed logs the error, ends the   *)
(* process and never calls process_feed; run with arguments it calls       *)
(* process_feed exactly once, with the first argument, create=True and the *)
(* --category option as category_title.                                    *)
C6_AddFeedDelegates ==
    /\ Len(args) = 0 => calls = <<>>
    /\ cmd_pc = "start" => calls = <<>>
    /\ cmd_pc \notin {"start", "idle"} =>
          IF Len(args) = 0
          THEN /\ cmd_pc = "exited"
               /\ \E i \in DOMAIN log : log[i][1] = "error"
          ELSE /\ cmd_pc = "done"
               /\ calls = << [feed_url |-> args[1], create |-> TRUE,
                              category_title |-> options.category] >>

C6_Witness ==
    /\ cmd_pc = "done"
    /\ Len(args) > 1
    /\ args[2] # args[1]
    /\ options.category # PyNone
    /\ Len(calls) = 1

(* C7: an author (a feed) of the current site is in the list of            *)
(* authors_about (feeds_about) exactly when a site-visible post of that    *)
(* author (feed) carries the tag, and is in it at most once.               *)
C7_AboutLists ==
    /\ about.of = "authors" =>
          /\ \A a \in AuthorSiteObjects :
                a \in Range(about.list) <=>
                   \E p \in PostSiteObjects :
                      HasTag(p, about.tag) /\ a \in posts[p].authors
          /\ \A i, j \in DOMAIN about.list :
                i # j => about.list[i] # about.list[j]
    /\ about.of = "feeds" =>
          /\ \A f \in FeedSiteObjects :
                f \in Range(about.list) <=>
                   \E p \in PostSiteObjects :
                      HasTag(p, about.tag) /\ posts[p].feed = f
          /\ \A i, j \in DOMAIN about.list :
                i # j => about.list[i] # about.list[j]

C7_Witness ==
    /\ about.of = "authors"
    /\ about.list = <<"a2">>
    /\ Cardinality({p \in PostSiteObjects :
                      HasTag(p, about.tag) /\ "a2" \in posts[p].authors}) > 1

(* C8: the listed posts are in non-increasing order of effective date, and *)
(* the limit is applied after ordering: the list holds the n most recent   *)
(* of the selected posts.                                                  *)
C8_NewestFirst ==
    Rendered =>
        /\ \A i, j \in DOMAIN listed :
              i < j => DateOf(listed[i]) >= DateOf(listed[j])
        /\ Listed \subseteq Wanted
        /\ Len(listed) = Min(EntriesAsked, Cardinality(Wanted))
        /\ \A p \in Wanted \ Listed, q \in Listed : DateOf(p) <= DateOf(q)

C8_Witness ==
    /\ Rendered
    /\ Len(listed) = 1
    /\ \E p \in Wanted \ Listed : DateOf(p) < DateOf(listed[1])
    /\ posts[listed[1]].date_modified # NullDate
    /\ posts[listed[1]].date_created < DateOf(listed[1])
    /\ \E p \in Wanted \ Listed : posts[p].date_created > posts[listed[1]].date_created

====
